---- MODULE Spec2Model ----
(***************************************************************************)
(* Model of kryoptic's HashOperation (src/ossl/hash.rs): a PKCS#11 digest  *)
(* operation on top of the OpenSSL EVP_Digest interface.  The state is the *)
(* struct's fields (mech, state.md, state.ctx, finalized, in_use); every   *)
(* method of the MechOperation and Digest implementations is one action.   *)
(* The OpenSSL primitives are modelled as an accumulator whose outcome     *)
(* (success, failure, unexpected output length) is chosen by the           *)
(* environment; the digest value itself is a symbolic term over the        *)
(* algorithm and the message.                                              *)
(***************************************************************************)
EXTENDS Integers, Sequences, FiniteSets, TLC

\* ---------------------------------------------------------------- bounds
\* largest byte value fed to the operation
MaxByte == 1
\* longest chunk / message passed in one call
MaxChunkLen == 1
\* most bytes accepted in one streaming sequence
MaxData == 2

Bytes == 0..MaxByte
Chunks == UNION {[1..n -> Bytes] : n \in 0..MaxChunkLen}

\* ------------------------------------------------------- PKCS#11 values
CKR_OK == "CKR_OK"
CKR_GENERAL_ERROR == "CKR_GENERAL_ERROR"
CKR_DEVICE_ERROR == "CKR_DEVICE_ERROR"
CKR_MECHANISM_INVALID == "CKR_MECHANISM_INVALID"
CKR_OPERATION_NOT_INITIALIZED == "CKR_OPERATION_NOT_INITIALIZED"

Mechanisms == {"CKM_SHA_1", "CKM_SHA256", "CKM_AES_CBC"}
NoMech == "none"
NULL == "NULL"

\* resolver of crate::ossl::common: digest mechanisms map to an OpenSSL
\* algorithm name, everything else to a null pointer
mech_type_to_digest_name(m) ==
    CASE m = "CKM_SHA_1" -> "SHA1"
      [] m = "CKM_SHA256" -> "SHA256"
      [] OTHER -> NULL

\* ------------------------------------------------------- OpenSSL engine
EngineResults == {"ok", "fail"}
EngineOutResults == {"ok", "fail", "badlen"}

EVP_MD_get_size(md) ==
    CASE md = "SHA1" -> 20
      [] md = "SHA256" -> 32
      [] OTHER -> 0 - 1

\* the digest of msg under alg, as a symbolic term
Hash(alg, msg) == [alg |-> alg, msg |-> msg]
\* buffer content the callee never wrote
Blank == [alg |-> "blank", msg |-> <<>>]
\* buffer content after a failed or short engine write
Unspecified == [alg |-> "unspecified", msg |-> <<>>]

\* a call that takes no output buffer
NoBuffer == [len |-> 0, val |-> Blank]

\* EVP_MD_CTX_new: an allocated context with no digest set
NewCtx == [st |-> "new", alg |-> NULL, data |-> <<>>]

EVP_DigestInit(c, md, e) ==
    IF e = "ok"
    THEN [r |-> 1, ctx |-> [st |-> "init", alg |-> md, data |-> <<>>]]
    ELSE [r |-> 0, ctx |-> [c EXCEPT !.st = "bad"]]

EVP_DigestUpdate(c, data, e) ==
    IF e = "ok" /\ c.st = "init"
    THEN [r |-> 1, ctx |-> [c EXCEPT !.data = c.data \o data]]
    ELSE [r |-> 0, ctx |-> [c EXCEPT !.st = "bad"]]

EVP_DigestFinal_ex(c, e) ==
    IF e = "fail" \/ c.st # "init"
    THEN [r |-> 0, len |-> 0, val |-> Unspecified,
          ctx |-> [c EXCEPT !.st = "bad"]]
    ELSE IF e = "badlen"
    THEN [r |-> 1, len |-> EVP_MD_get_size(c.alg) - 1, val |-> Unspecified,
          ctx |-> [c EXCEPT !.st = "final"]]
    ELSE [r |-> 1, len |-> EVP_MD_get_size(c.alg),
          val |-> Hash(c.alg, c.data), ctx |-> [c EXCEPT !.st = "final"]]

EVP_Digest(data, md, e) ==
    IF e = "fail"
    THEN [r |-> 0, len |-> 0, val |-> Unspecified]
    ELSE IF e = "badlen"
    THEN [r |-> 1, len |-> EVP_MD_get_size(md) - 1, val |-> Unspecified]
    ELSE [r |-> 1, len |-> EVP_MD_get_size(md), val |-> Hash(md, data)]

\* ------------------------------------------------------------- the state
VARIABLES
    constructed,  \* a HashOperation exists
    mech,         \* HashOperation.mech
    md,           \* HashOperation.state.md
    ctx,          \* HashOperation.state.ctx
    finalized,    \* HashOperation.finalized
    in_use,       \* HashOperation.in_use
    last,         \* the most recent call: name, arguments, result, engine trace
    out,          \* the output buffer of the most recent call, after the call
    fed,          \* history: data accepted since construction / last reset
    updCalled,    \* history: digest_update called since construction / last reset
    updFailed,    \* history: an engine update failed since construction / last reset
    resetFrom,    \* history: lifecycle state the last reset() was called in
    okFinals,     \* history: digest / digest_final calls that returned CKR_OK
                  \*          since construction / last reset (0, 1, 2 = more)
    accepted      \* history: an engine update succeeded since construction /
                  \*          last reset

vars == <<constructed, mech, md, ctx, finalized, in_use, last, out, fed,
          updCalled, updFailed, resetFrom, okFinals, accepted>>

DigestOps == {"digest", "digest_update", "digest_final"}

\* lifecycle state named by the flag pair
Lifecycle(fin, use) ==
    IF fin THEN "Finalized" ELSE IF use THEN "Streaming" ELSE "Idle"

\* the value a call returns beside its code: a mechanism, a flag or a length
NoVal == [m |-> NoMech, b |-> FALSE, n |-> 0]
MechVal(m) == [NoVal EXCEPT !.m = m]
FlagVal(b) == [NoVal EXCEPT !.b = b]
LenVal(n) == [NoVal EXCEPT !.n = n]

\* the count of successful completions, kept up to "two or more"
OneMore(n) == IF n = 0 THEN 1 ELSE 2

Call(op, ret, eng, buflen, val) ==
    [op |-> op, ret |-> ret, preFin |-> finalized, preUse |-> in_use,
     eng |-> eng, buflen |-> buflen, val |-> val]

Init ==
    /\ constructed = FALSE
    /\ mech = NoMech
    /\ md = NULL
    /\ ctx = NewCtx
    /\ finalized = FALSE
    /\ in_use = FALSE
    /\ last = [op |-> "none", ret |-> CKR_OK, preFin |-> FALSE,
               preUse |-> FALSE, eng |-> <<>>, buflen |-> 0, val |-> NoVal]
    /\ out = NoBuffer
    /\ fed = <<>>
    /\ updCalled = FALSE
    /\ updFailed = FALSE
    /\ resetFrom = "none"
    /\ okFinals = 0
    /\ accepted = FALSE

\* ------------------------------------------------- HashOperation methods
\* Each method is a function of the fields it reads, its arguments and the
\* engine's outcomes; it yields the fields it writes, the returned code, the
\* engine calls it made (EVP_Digest with its message) and the content of the
\* output buffer.

\* EvpMd::new / EvpMdCtx::new of crate::ossl::common: the wrapped handle, or
\* an engine-initialization error when OpenSSL returns a null pointer
EvpNew(handle, e) ==
    IF e = "ok" THEN [ok |-> TRUE, ret |-> CKR_OK, ptr |-> handle]
    ELSE [ok |-> FALSE, ret |-> CKR_DEVICE_ERROR, ptr |-> NULL]

\* HashState::new: fetch the EVP_MD, then allocate the EVP_MD_CTX
HashState_new(alg, e) ==
    LET h == EvpNew(alg, e) IN
    IF h.ok
    THEN [ok |-> TRUE, ret |-> CKR_OK, md |-> h.ptr, ctx |-> NewCtx]
    ELSE [ok |-> FALSE, ret |-> h.ret, md |-> NULL, ctx |-> NewCtx]

\* variant: the null algorithm name is passed on to HashState::new
HashOperation_new_noNullCheck(m, e) ==
    LET alg == mech_type_to_digest_name(m)
        st == HashState_new(alg, IF alg = NULL THEN "fail" ELSE e)
    IN
    IF st.ok
    THEN [ok |-> TRUE, ret |-> CKR_OK, mech |-> m, md |-> st.md,
          ctx |-> st.ctx, finalized |-> FALSE, in_use |-> FALSE]
    ELSE [ok |-> FALSE, ret |-> st.ret, mech |-> NoMech, md |-> NULL,
          ctx |-> NewCtx, finalized |-> FALSE, in_use |-> FALSE]

HashOperation_new(m, e) ==
    LET alg == mech_type_to_digest_name(m) IN
    IF alg = NULL
    THEN [ok |-> FALSE, ret |-> CKR_MECHANISM_INVALID, mech |-> NoMech,
          md |-> NULL, ctx |-> NewCtx, finalized |-> FALSE, in_use |-> FALSE]
    ELSE LET st == HashState_new(alg, e) IN
         IF st.ok
         THEN [ok |-> TRUE, ret |-> CKR_OK, mech |-> m, md |-> st.md,
               ctx |-> st.ctx, finalized |-> FALSE, in_use |-> FALSE]
         ELSE [ok |-> FALSE, ret |-> st.ret, mech |-> NoMech, md |-> NULL,
               ctx |-> NewCtx, finalized |-> FALSE, in_use |-> FALSE]

digest_len(m) == EVP_MD_get_size(m)

\* digest_init: EVP_DigestInit on the operation's context
digest_init(c, m, e) ==
    LET i == EVP_DigestInit(c, m, e) IN
    [ret |-> IF i.r = 1 THEN CKR_OK ELSE CKR_DEVICE_ERROR, ctx |-> i.ctx]

\* variant: reset clears finalized only
reset_keepInUse(fin, use) ==
    [finalized |-> FALSE, in_use |-> use, ret |-> CKR_OK]

reset(fin, use) ==
    [finalized |-> FALSE, in_use |-> FALSE, ret |-> CKR_OK]

\* variant: finalized is set before the output length is checked
digest_finalizeFirst(fin, use, m, data, buflen, e) ==
    IF use \/ fin
    THEN [finalized |-> fin, in_use |-> use,
          ret |-> CKR_OPERATION_NOT_INITIALIZED, eng |-> <<>>, out |-> Blank]
    ELSE IF buflen # digest_len(m)
    THEN [finalized |-> TRUE, in_use |-> use, ret |-> CKR_GENERAL_ERROR,
          eng |-> <<>>, out |-> Blank]
    ELSE LET r == EVP_Digest(data, m, e) IN
         [finalized |-> TRUE, in_use |-> use,
          ret |-> IF r.r # 1 \/ r.len # buflen
                  THEN CKR_GENERAL_ERROR ELSE CKR_OK,
          eng |-> << <<"EVP_Digest", e, data>> >>, out |-> r.val]

\* variant: a successful one-shot digest does not set finalized
digest_noFinalize(fin, use, m, data, buflen, e) ==
    IF use \/ fin
    THEN [finalized |-> fin, in_use |-> use,
          ret |-> CKR_OPERATION_NOT_INITIALIZED, eng |-> <<>>, out |-> Blank]
    ELSE IF buflen # digest_len(m)
    THEN [finalized |-> fin, in_use |-> use, ret |-> CKR_GENERAL_ERROR,
          eng |-> <<>>, out |-> Blank]
    ELSE LET r == EVP_Digest(data, m, e) IN
         [finalized |-> (r.r # 1 \/ r.len # buflen), in_use |-> use,
          ret |-> IF r.r # 1 \/ r.len # buflen
                  THEN CKR_GENERAL_ERROR ELSE CKR_OK,
          eng |-> << <<"EVP_Digest", e, data>> >>, out |-> r.val]

\* variant: digest checks in_use only
digest_noFinCheck(fin, use, m, data, buflen, e) ==
    IF use
    THEN [finalized |-> fin, in_use |-> use,
          ret |-> CKR_OPERATION_NOT_INITIALIZED, eng |-> <<>>, out |-> Blank]
    ELSE IF buflen # digest_len(m)
    THEN [finalized |-> fin, in_use |-> use, ret |-> CKR_GENERAL_ERROR,
          eng |-> <<>>, out |-> Blank]
    ELSE LET r == EVP_Digest(data, m, e) IN
         [finalized |-> TRUE, in_use |-> use,
          ret |-> IF r.r # 1 \/ r.len # buflen
                  THEN CKR_GENERAL_ERROR ELSE CKR_OK,
          eng |-> << <<"EVP_Digest", e, data>> >>, out |-> r.val]

\* variant: digest checks finalized only
digest_noUseCheck(fin, use, m, data, buflen, e) ==
    IF fin
    THEN [finalized |-> fin, in_use |-> use,
          ret |-> CKR_OPERATION_NOT_INITIALIZED, eng |-> <<>>, out |-> Blank]
    ELSE IF buflen # digest_len(m)
    THEN [finalized |-> fin, in_use |-> use, ret |-> CKR_GENERAL_ERROR,
          eng |-> <<>>, out |-> Blank]
    ELSE LET r == EVP_Digest(data, m, e) IN
         [finalized |-> TRUE, in_use |-> use,
          ret |-> IF r.r # 1 \/ r.len # buflen
                  THEN CKR_GENERAL_ERROR ELSE CKR_OK,
          eng |-> << <<"EVP_Digest", e, data>> >>, out |-> r.val]

\* variant: a successful one-shot digest marks the operation in use
digest_marksInUse(fin, use, m, data, buflen, e) ==
    IF use \/ fin
    THEN [finalized |-> fin, in_use |-> use,
          ret |-> CKR_OPERATION_NOT_INITIALIZED, eng |-> <<>>, out |-> Blank]
    ELSE IF buflen # digest_len(m)
    THEN [finalized |-> fin, in_use |-> use, ret |-> CKR_GENERAL_ERROR,
          eng |-> <<>>, out |-> Blank]
    ELSE LET r == EVP_Digest(data, m, e) IN
         [finalized |-> TRUE, in_use |-> TRUE,
          ret |-> IF r.r # 1 \/ r.len # buflen
                  THEN CKR_GENERAL_ERROR ELSE CKR_OK,
          eng |-> << <<"EVP_Digest", e, data>> >>, out |-> r.val]

\* variant: the output length is checked before the lifecycle flags
digest_lengthFirst(fin, use, m, data, buflen, e) ==
    IF buflen # digest_len(m)
    THEN [finalized |-> fin, in_use |-> use, ret |-> CKR_GENERAL_ERROR,
          eng |-> <<>>, out |-> Blank]
    ELSE IF use \/ fin
    THEN [finalized |-> fin, in_use |-> use,
          ret |-> CKR_OPERATION_NOT_INITIALIZED, eng |-> <<>>, out |-> Blank]
    ELSE LET r == EVP_Digest(data, m, e) IN
         [finalized |-> TRUE, in_use |-> use,
          ret |-> IF r.r # 1 \/ r.len # buflen
                  THEN CKR_GENERAL_ERROR ELSE CKR_OK,
          eng |-> << <<"EVP_Digest", e, data>> >>, out |-> r.val]

digest(fin, use, m, data, buflen, e) ==
    IF use \/ fin
    THEN [finalized |-> fin, in_use |-> use,
          ret |-> CKR_OPERATION_NOT_INITIALIZED, eng |-> <<>>, out |-> Blank]
    ELSE IF buflen # digest_len(m)
    THEN [finalized |-> fin, in_use |-> use, ret |-> CKR_GENERAL_ERROR,
          eng |-> <<>>, out |-> Blank]
    ELSE LET r == EVP_Digest(data, m, e) IN
         [finalized |-> TRUE, in_use |-> use,
          ret |-> IF r.r # 1 \/ r.len # buflen
                  THEN CKR_GENERAL_ERROR ELSE CKR_OK,
          eng |-> << <<"EVP_Digest", e, data>> >>, out |-> r.val]

\* shared tail of digest_update and its variants: init when doInit, then
\* update; poison tells whether a failed update sets finalized
UpdateBody(fin, use, c, m, data, eInit, eUpd, doInit, poison) ==
    LET i == IF doInit THEN digest_init(c, m, eInit)
             ELSE [ret |-> CKR_OK, ctx |-> c]
        ie == IF doInit THEN << <<"EVP_DigestInit", eInit>> >> ELSE <<>>
    IN
    IF i.ret # CKR_OK
    THEN [finalized |-> fin, in_use |-> use, ctx |-> i.ctx,
          ret |-> i.ret, eng |-> ie]
    ELSE LET u == EVP_DigestUpdate(i.ctx, data, eUpd) IN
         [finalized |-> IF u.r = 1 THEN fin ELSE (fin \/ poison),
          in_use |-> TRUE, ctx |-> u.ctx,
          ret |-> IF u.r = 1 THEN CKR_OK ELSE CKR_DEVICE_ERROR,
          eng |-> Append(ie, <<"EVP_DigestUpdate",
                               IF u.r = 1 THEN "ok" ELSE "fail">>)]

\* variant: a failed engine update does not set finalized
digest_update_noPoison(fin, use, c, m, data, eInit, eUpd) ==
    IF fin
    THEN [finalized |-> fin, in_use |-> use, ctx |-> c,
          ret |-> CKR_OPERATION_NOT_INITIALIZED, eng |-> <<>>]
    ELSE UpdateBody(fin, use, c, m, data, eInit, eUpd, ~use, FALSE)

\* variant: the context is initialised once per object, not once per sequence
digest_update_initOnce(fin, use, c, m, data, eInit, eUpd) ==
    IF fin
    THEN [finalized |-> fin, in_use |-> use, ctx |-> c,
          ret |-> CKR_OPERATION_NOT_INITIALIZED, eng |-> <<>>]
    ELSE UpdateBody(fin, use, c, m, data, eInit, eUpd,
                    ~use /\ c.st = "new", TRUE)

\* variant: the context is initialised again on every call
digest_update_reinitAlways(fin, use, c, m, data, eInit, eUpd) ==
    IF fin
    THEN [finalized |-> fin, in_use |-> use, ctx |-> c,
          ret |-> CKR_OPERATION_NOT_INITIALIZED, eng |-> <<>>]
    ELSE UpdateBody(fin, use, c, m, data, eInit, eUpd, TRUE, TRUE)

digest_update(fin, use, c, m, data, eInit, eUpd) ==
    IF fin
    THEN [finalized |-> fin, in_use |-> use, ctx |-> c,
          ret |-> CKR_OPERATION_NOT_INITIALIZED, eng |-> <<>>]
    ELSE LET i == IF ~use THEN digest_init(c, m, eInit)
                  ELSE [ret |-> CKR_OK, ctx |-> c]
             ie == IF ~use THEN << <<"EVP_DigestInit", eInit>> >> ELSE <<>>
         IN
         IF i.ret # CKR_OK
         THEN [finalized |-> fin, in_use |-> use, ctx |-> i.ctx,
               ret |-> i.ret, eng |-> ie]
         ELSE LET u == EVP_DigestUpdate(i.ctx, data, eUpd) IN
              [finalized |-> IF u.r = 1 THEN fin ELSE TRUE,
               in_use |-> TRUE, ctx |-> u.ctx,
               ret |-> IF u.r = 1 THEN CKR_OK ELSE CKR_DEVICE_ERROR,
               eng |-> Append(ie, <<"EVP_DigestUpdate",
                                    IF u.r = 1 THEN "ok" ELSE "fail">>)]

\* shared tail of digest_final and its variants: length check, then finalize
FinalBody(fin, use, c, m, buflen, e) ==
    IF buflen # digest_len(m)
    THEN [finalized |-> fin, in_use |-> use, ctx |-> c,
          ret |-> CKR_GENERAL_ERROR, eng |-> <<>>, out |-> Blank]
    ELSE LET r == EVP_DigestFinal_ex(c, e) IN
         [finalized |-> TRUE, in_use |-> use, ctx |-> r.ctx,
          ret |-> IF r.r # 1 \/ r.len # buflen
                  THEN CKR_GENERAL_ERROR ELSE CKR_OK,
          eng |-> << <<"EVP_DigestFinal_ex",
                       IF r.r # 1 THEN "fail" ELSE e>> >>,
          out |-> r.val]

\* variant: digest_final without the finalized check
digest_final_noFinCheck(fin, use, c, m, buflen, e) ==
    IF ~use
    THEN [finalized |-> fin, in_use |-> use, ctx |-> c,
          ret |-> CKR_OPERATION_NOT_INITIALIZED, eng |-> <<>>, out |-> Blank]
    ELSE FinalBody(fin, use, c, m, buflen, e)

\* variant: digest_final without the in_use check
digest_final_noUseCheck(fin, use, c, m, buflen, e) ==
    IF fin
    THEN [finalized |-> fin, in_use |-> use, ctx |-> c,
          ret |-> CKR_OPERATION_NOT_INITIALIZED, eng |-> <<>>, out |-> Blank]
    ELSE FinalBody(fin, use, c, m, buflen, e)

\* variant: finalized is set only once the engine has finalized successfully
digest_final_finalizeAfter(fin, use, c, m, buflen, e) ==
    IF ~use \/ fin
    THEN [finalized |-> fin, in_use |-> use, ctx |-> c,
          ret |-> CKR_OPERATION_NOT_INITIALIZED, eng |-> <<>>, out |-> Blank]
    ELSE LET b == FinalBody(fin, use, c, m, buflen, e) IN
         [b EXCEPT !.finalized = (b.ret = CKR_OK)]

\* variant: a completed digest_final clears in_use
digest_final_clearsInUse(fin, use, c, m, buflen, e) ==
    IF ~use \/ fin
    THEN [finalized |-> fin, in_use |-> use, ctx |-> c,
          ret |-> CKR_OPERATION_NOT_INITIALIZED, eng |-> <<>>, out |-> Blank]
    ELSE LET b == FinalBody(fin, use, c, m, buflen, e) IN
         [b EXCEPT !.in_use = (b.eng = <<>>)]

digest_final(fin, use, c, m, buflen, e) ==
    IF ~use
    THEN [finalized |-> fin, in_use |-> use, ctx |-> c,
          ret |-> CKR_OPERATION_NOT_INITIALIZED, eng |-> <<>>, out |-> Blank]
    ELSE IF fin
    THEN [finalized |-> fin, in_use |-> use, ctx |-> c,
          ret |-> CKR_OPERATION_NOT_INITIALIZED, eng |-> <<>>, out |-> Blank]
    ELSE IF buflen # digest_len(m)
    THEN [finalized |-> fin, in_use |-> use, ctx |-> c,
          ret |-> CKR_GENERAL_ERROR, eng |-> <<>>, out |-> Blank]
    ELSE LET r == EVP_DigestFinal_ex(c, e) IN
         [finalized |-> TRUE, in_use |-> use, ctx |-> r.ctx,
          ret |-> IF r.r # 1 \/ r.len # buflen
                  THEN CKR_GENERAL_ERROR ELSE CKR_OK,
          eng |-> << <<"EVP_DigestFinal_ex",
                       IF r.r # 1 THEN "fail" ELSE e>> >>,
          out |-> r.val]

\* output buffer lengths a caller passes: the digest length and its neighbours
BufLens(m) == {digest_len(m) - 1, digest_len(m), digest_len(m) + 1}

\* ---------------------------------------------------------------- actions
New ==
    /\ ~constructed
    /\ \E m \in Mechanisms, e \in EngineResults :
         LET n == HashOperation_new(m, e) IN
         /\ constructed' = n.ok
         /\ mech' = n.mech
         /\ md' = n.md
         /\ ctx' = n.ctx
         /\ finalized' = n.finalized
         /\ in_use' = n.in_use
         /\ last' = [Call("new", n.ret, <<>>, 0, MechVal(m))
                       EXCEPT !.preFin = FALSE, !.preUse = FALSE]
    /\ out' = NoBuffer
    /\ UNCHANGED <<fed, updCalled, updFailed, resetFrom, okFinals, accepted>>

Mechanism ==
    /\ constructed
    /\ last' = Call("mechanism", CKR_OK, <<>>, 0, MechVal(mech))
    /\ out' = NoBuffer
    /\ UNCHANGED <<constructed, mech, md, ctx, finalized, in_use, fed,
                   updCalled, updFailed, resetFrom, okFinals, accepted>>

Finalized ==
    /\ constructed
    /\ last' = Call("finalized", CKR_OK, <<>>, 0, FlagVal(finalized))
    /\ out' = NoBuffer
    /\ UNCHANGED <<constructed, mech, md, ctx, finalized, in_use, fed,
                   updCalled, updFailed, resetFrom, okFinals, accepted>>

DigestLen ==
    /\ constructed
    /\ last' = Call("digest_len", CKR_OK, <<>>, 0, LenVal(digest_len(md)))
    /\ out' = NoBuffer
    /\ UNCHANGED <<constructed, mech, md, ctx, finalized, in_use, fed,
                   updCalled, updFailed, resetFrom, okFinals, accepted>>

\* variant: reset also releases the fetched algorithm
Reset_dropsAlgorithm ==
    /\ constructed
    /\ LET r == reset(finalized, in_use) IN
         /\ finalized' = r.finalized
         /\ in_use' = r.in_use
         /\ last' = Call("reset", r.ret, <<>>, 0, NoVal)
    /\ fed' = <<>>
    /\ updCalled' = FALSE
    /\ updFailed' = FALSE
    /\ okFinals' = 0
    /\ accepted' = FALSE
    /\ resetFrom' = IF updFailed THEN "FinalizedEngineFailure"
                    ELSE Lifecycle(finalized, in_use)
    /\ out' = NoBuffer
    /\ md' = NULL
    /\ UNCHANGED <<constructed, mech, ctx>>

Reset ==
    /\ constructed
    /\ LET r == reset(finalized, in_use) IN
         /\ finalized' = r.finalized
         /\ in_use' = r.in_use
         /\ last' = Call("reset", r.ret, <<>>, 0, NoVal)
    /\ fed' = <<>>
    /\ updCalled' = FALSE
    /\ updFailed' = FALSE
    /\ okFinals' = 0
    /\ accepted' = FALSE
    /\ resetFrom' = IF updFailed THEN "FinalizedEngineFailure"
                    ELSE Lifecycle(finalized, in_use)
    /\ out' = NoBuffer
    /\ UNCHANGED <<constructed, mech, md, ctx>>

Digest ==
    /\ constructed
    /\ \E data \in Chunks, n \in BufLens(md), e \in EngineOutResults :
         LET r == digest(finalized, in_use, md, data, n, e) IN
         /\ finalized' = r.finalized
         /\ in_use' = r.in_use
         /\ last' = Call("digest", r.ret, r.eng, n, NoVal)
         /\ out' = [len |-> n, val |-> r.out]
         /\ okFinals' = IF r.ret = CKR_OK THEN OneMore(okFinals) ELSE okFinals
    /\ UNCHANGED <<constructed, mech, md, ctx, fed, updCalled, updFailed,
                   resetFrom, accepted>>

DigestUpdate ==
    /\ constructed
    /\ \E data \in Chunks, eInit \in EngineResults, eUpd \in EngineResults :
         /\ Len(fed) + Len(data) <= MaxData
         /\ LET r == digest_update(finalized, in_use, ctx, md, data, eInit,
                                    eUpd)
            IN
            /\ finalized' = r.finalized
            /\ in_use' = r.in_use
            /\ ctx' = r.ctx
            /\ last' = Call("digest_update", r.ret, r.eng, 0, NoVal)
            /\ fed' = IF r.ret = CKR_OK THEN fed \o data ELSE fed
            /\ accepted' = (accepted \/ r.ret = CKR_OK)
            /\ updFailed' = (updFailed \/ (r.eng # <<>> /\
                    r.eng[Len(r.eng)] = <<"EVP_DigestUpdate", "fail">>))
    /\ updCalled' = TRUE
    /\ out' = NoBuffer
    /\ UNCHANGED <<constructed, mech, md, resetFrom, okFinals>>

DigestFinal ==
    /\ constructed
    /\ \E n \in BufLens(md), e \in EngineOutResults :
         LET r == digest_final(finalized, in_use, ctx, md, n, e) IN
         /\ finalized' = r.finalized
         /\ in_use' = r.in_use
         /\ ctx' = r.ctx
         /\ last' = Call("digest_final", r.ret, r.eng, n, NoVal)
         /\ out' = [len |-> n, val |-> r.out]
         /\ okFinals' = IF r.ret = CKR_OK THEN OneMore(okFinals) ELSE okFinals
    /\ UNCHANGED <<constructed, mech, md, fed, updCalled, updFailed,
                   resetFrom, accepted>>

Next ==
    \/ New
    \/ Mechanism
    \/ Finalized
    \/ DigestLen
    \/ Reset
    \/ Digest
    \/ DigestUpdate
    \/ DigestFinal

Spec == Init /\ [][Next]_vars

\* the caller keeps calling into the operation
FairSpec == Spec /\ WF_vars(Next)

TypeOK ==
    /\ constructed \in BOOLEAN
    /\ mech \in Mechanisms \cup {NoMech}
    /\ md \in {"SHA1", "SHA256", NULL}
    /\ finalized \in BOOLEAN
    /\ in_use \in BOOLEAN
    /\ ctx.st \in {"new", "init", "final", "bad"}
    /\ Len(fed) <= MaxData
    /\ okFinals \in 0..2
    /\ accepted \in BOOLEAN

\* ------------------------------------------------ vocabulary of the claims
\* the engine reported failure on primitive prim during the call c
EngineFailedIn(c, prim) ==
    \E i \in 1..Len(c.eng) : c.eng[i][1] = prim /\ c.eng[i][2] = "fail"

\* no engine primitive invoked by the call c failed or misreported a length
NoEngineFailure(c) == \A i \in 1..Len(c.eng) : c.eng[i][2] = "ok"

\* the lifecycle check of digest / digest_update lets a call through in the
\* current state, whatever its arguments and the engine's outcome
DigestAccepted ==
    \A data \in Chunks, e \in EngineOutResults :
        digest(finalized, in_use, md, data, digest_len(md), e).ret
            # CKR_OPERATION_NOT_INITIALIZED

UpdateAccepted ==
    \A data \in Chunks, eI \in EngineResults, eU \in EngineResults :
        digest_update(finalized, in_use, ctx, md, data, eI, eU).ret
            # CKR_OPERATION_NOT_INITIALIZED

\* the call c was refused for its output length alone
LengthRejected(c) ==
    /\ c.op \in {"digest", "digest_final"}
    /\ ~c.preFin
    /\ c.preUse = (c.op = "digest_final")
    /\ c.buflen # digest_len(md)

\* ------------------------------------------------------------------ C1
\* C1: a digest, digest_update or digest_final call made while finalized is
\* true returns CKR_OPERATION_NOT_INITIALIZED without reaching the engine
\* and changes no field of the operation; finalized goes back to false only
\* in a reset() call.
C1_IdempotentRejection ==
    /\ [](last.op \in DigestOps /\ last.preFin =>
            /\ last.ret = CKR_OPERATION_NOT_INITIALIZED
            /\ last.eng = <<>>
            /\ finalized
            /\ in_use = last.preUse)
    /\ [][/\ (finalized /\ last'.op \in DigestOps =>
                UNCHANGED <<finalized, in_use, ctx, mech, md>>)
          /\ (finalized /\ ~finalized' => last'.op = "reset")]_vars

C1_Witness ==
    /\ last.op = "digest_final"
    /\ last.preFin
    /\ last.preUse
    /\ last.buflen # digest_len(md)
    /\ last.ret = CKR_OPERATION_NOT_INITIALIZED

\* ------------------------------------------------------------------ C2
\* C2: once digest_update has been called since construction or the last
\* reset(), whatever its outcome, every digest call returns
\* CKR_OPERATION_NOT_INITIALIZED.
C2_DigestAfterUpdateRejected ==
    updCalled /\ last.op = "digest" =>
        last.ret = CKR_OPERATION_NOT_INITIALIZED

\* ------------------------------------------------------------------ C3
\* C3 as stated: digest_final called with in_use false returns
\* CKR_OPERATION_NOT_INITIALIZED, does not reach the engine, leaves the flags
\* unchanged, and digest and digest_update are accepted afterwards.
C3_FinalBeforeUpdate_Original ==
    last.op = "digest_final" /\ ~last.preUse =>
        /\ last.ret = CKR_OPERATION_NOT_INITIALIZED
        /\ last.eng = <<>>
        /\ finalized = last.preFin
        /\ in_use = last.preUse
        /\ DigestAccepted
        /\ UpdateAccepted

\* C3 amended: digest_final called with in_use false returns
\* CKR_OPERATION_NOT_INITIALIZED, does not reach the engine and leaves the
\* flags unchanged; digest and digest_update are accepted afterwards when
\* finalized is false as well (the operation is Idle).
C3_FinalBeforeUpdate ==
    last.op = "digest_final" /\ ~last.preUse =>
        /\ last.ret = CKR_OPERATION_NOT_INITIALIZED
        /\ last.eng = <<>>
        /\ finalized = last.preFin
        /\ in_use = last.preUse
        /\ (~finalized => DigestAccepted /\ UpdateAccepted)

C3_Witness ==
    /\ last.op = "digest_final"
    /\ ~last.preUse
    /\ ~last.preFin
    /\ last.buflen = digest_len(md)
    /\ last.ret = CKR_OPERATION_NOT_INITIALIZED
    /\ DigestAccepted
    /\ UpdateAccepted

\* ------------------------------------------------------------------ C4
\* C4: digest in Idle / digest_final in Streaming with an output buffer whose
\* length is not digest_len() returns CKR_GENERAL_ERROR before any engine
\* call, with finalized and in_use unchanged; the same call made next with a
\* buffer of the right length succeeds when the engine does.
C4_BufferSizeEnforcement ==
    /\ [](LengthRejected(last) =>
            /\ last.ret = CKR_GENERAL_ERROR
            /\ last.eng = <<>>
            /\ out.val = Blank
            /\ finalized = last.preFin
            /\ in_use = last.preUse)
    /\ [][LengthRejected(last) /\ last'.op = last.op
            /\ last'.buflen = digest_len(md) /\ NoEngineFailure(last')
          => last'.ret = CKR_OK /\ last'.eng # <<>>]_vars

C4_Witness ==
    /\ LengthRejected(last)
    /\ last.op = "digest_final"
    /\ last.buflen = digest_len(md) + 1
    /\ last.ret = CKR_GENERAL_ERROR
    /\ fed # <<>>

\* ------------------------------------------------------------------ C5
\* C5: a digest_update whose engine update fails returns CKR_DEVICE_ERROR
\* with finalized true, and from then until reset() finalized stays true and
\* every digest, digest_update and digest_final call returns
\* CKR_OPERATION_NOT_INITIALIZED.
C5_UpdateFailurePoisons ==
    /\ (EngineFailedIn(last, "EVP_DigestUpdate") =>
            last.ret = CKR_DEVICE_ERROR /\ finalized /\ updFailed)
    /\ (updFailed => finalized)
    /\ (updFailed /\ last.op \in DigestOps
          /\ ~EngineFailedIn(last, "EVP_DigestUpdate") =>
            last.ret = CKR_OPERATION_NOT_INITIALIZED)

C5_Witness ==
    /\ updFailed
    /\ fed # <<>>
    /\ last.op = "digest_final"
    /\ last.buflen = digest_len(md)
    /\ last.ret = CKR_OPERATION_NOT_INITIALIZED

\* ------------------------------------------------------------------ C6
\* C6: a digest_update whose engine init fails returns CKR_DEVICE_ERROR and
\* leaves finalized true, so that digest and digest_update are rejected
\* until reset().
C6_InitFailureTerminal ==
    EngineFailedIn(last, "EVP_DigestInit") =>
        /\ last.ret = CKR_DEVICE_ERROR
        /\ finalized
        /\ ~DigestAccepted
        /\ ~UpdateAccepted

\* ------------------------------------------------------------------ C7
\* C7: whenever the engine reports failure during a call (init, update,
\* finalize or one-shot), the call returns CKR_DEVICE_ERROR, never a code
\* used for caller mistakes.
C7_EngineFailureIsDeviceError ==
    (\E i \in 1..Len(last.eng) : last.eng[i][2] = "fail") =>
        /\ last.ret = CKR_DEVICE_ERROR
        /\ last.ret \notin {CKR_OPERATION_NOT_INITIALIZED, CKR_GENERAL_ERROR}

\* ------------------------------------------------------------------ C8
\* C8: reset() returns CKR_OK in whatever state it is called, leaves
\* finalized and in_use false, keeps mech and the algorithm handle (hence
\* digest_len()), and a reset() directly after a reset() changes no field.
C8_ResetTotalIdempotent ==
    /\ [](last.op = "reset" =>
            last.ret = CKR_OK /\ ~finalized /\ ~in_use /\ constructed)
    /\ [][last'.op = "reset" =>
            /\ mech' = mech /\ md' = md
            /\ digest_len(md') = digest_len(md)
            /\ (last.op = "reset" =>
                  UNCHANGED <<finalized, in_use, ctx, mech, md>>)]_vars

C8_Witness ==
    /\ last.op = "reset"
    /\ last.preFin
    /\ last.preUse
    /\ resetFrom = "FinalizedEngineFailure"
    /\ last.ret = CKR_OK

\* ------------------------------------------------------------------ C9
\* C9: after a reset(), a digest call in Idle, and a digest_update ...
\* digest_final sequence, made with the right buffer length and without
\* engine failure, return CKR_OK, and the output is the digest of the data
\* passed since that reset() alone.
C9_ResetRestoresReuse ==
    resetFrom # "none" =>
        /\ (last.op = "digest" /\ ~last.preFin /\ ~last.preUse
              /\ last.buflen = digest_len(md) /\ NoEngineFailure(last) =>
                /\ last.ret = CKR_OK
                /\ out = [len |-> digest_len(md),
                          val |-> Hash(md, last.eng[1][3])])
        /\ (last.op = "digest_update" /\ ~last.preFin
              /\ NoEngineFailure(last) =>
                /\ last.ret = CKR_OK
                /\ in_use /\ ~finalized
                /\ ctx.data = fed)
        /\ (last.op = "digest_final" /\ last.preUse /\ ~last.preFin
              /\ last.buflen = digest_len(md) /\ NoEngineFailure(last) =>
                /\ last.ret = CKR_OK
                /\ out = [len |-> digest_len(md),
                          val |-> Hash(md, fed)])

C9_Witness ==
    /\ resetFrom = "Streaming"
    /\ last.op = "digest_final"
    /\ last.ret = CKR_OK
    /\ Len(fed) > MaxChunkLen
    /\ out.val = Hash(md, fed)

\* ----------------------------------------------------------------- C10
\* C10: while a streaming sequence is open the running context holds exactly
\* the concatenation of the chunks accepted so far (fed, whichever chunks it
\* was passed in), and a successful digest_final writes the digest of that
\* concatenation, so the output depends on the concatenation only and not
\* on the split.
C10_ChunkingInvariance ==
    /\ (in_use /\ ~finalized =>
            ctx = [st |-> "init", alg |-> md, data |-> fed])
    /\ (last.op = "digest_final" /\ last.ret = CKR_OK =>
            /\ ctx.data = fed
            /\ out = [len |-> digest_len(md),
                      val |-> Hash(md, fed)])

C10_Witness ==
    /\ last.op = "digest_final"
    /\ last.ret = CKR_OK
    /\ Len(fed) > MaxChunkLen
    /\ fed[1] # fed[Len(fed)]
    /\ out.val = Hash(md, fed)

\* ----------------------------------------------------------------- C11
\* what digest(x) leaves on a fresh operation of algorithm m when the engine
\* succeeds: the flags, the returned code and the buffer content
OneShot(m, x) == digest(FALSE, FALSE, m, x, digest_len(m), "ok")

\* C11: a successful digest_update ... digest_final sequence over the data x
\* writes the same output, and ends with the same finalized flag, as
\* digest(x) on a fresh operation of the same mechanism; digest(x) itself
\* succeeds on a fresh operation and leaves finalized true.
C11_OneShotEquivalence ==
    /\ (last.op = "digest_final" /\ last.ret = CKR_OK =>
            /\ OneShot(md, fed).ret = CKR_OK
            /\ out = [len |-> digest_len(md), val |-> OneShot(md, fed).out]
            /\ finalized = OneShot(md, fed).finalized
            /\ finalized)
    /\ (last.op = "digest" /\ last.ret = CKR_OK =>
            /\ out.val = Hash(md, last.eng[1][3])
            /\ finalized)

C11_Witness ==
    /\ last.op = "digest_final"
    /\ last.ret = CKR_OK
    /\ resetFrom = "none"
    /\ md = "SHA256"
    /\ Len(fed) = 1
    /\ out.val = OneShot(md, fed).out

\* ----------------------------------------------------------------- C12
\* C12: mechanism() and digest_len() return CKR_OK with the mechanism given
\* at construction and the output length of the algorithm resolved from it,
\* in every state; no call changes mech or the algorithm handle once the
\* operation exists.
C12_MechanismAndLengthFixed ==
    /\ [](/\ (constructed => md = mech_type_to_digest_name(mech) /\ md # NULL)
          /\ (last.op = "mechanism" =>
                last.ret = CKR_OK /\ last.val = MechVal(mech))
          /\ (last.op = "digest_len" =>
                /\ last.ret = CKR_OK
                /\ last.val = LenVal(EVP_MD_get_size(md))
                /\ last.val.n > 0))
    /\ [][constructed =>
            /\ constructed'
            /\ mech' = mech
            /\ md' = md
            /\ digest_len(md') = digest_len(md)]_vars

C12_Witness ==
    /\ last.op = "digest_len"
    /\ last.val = LenVal(32)
    /\ mech = "CKM_SHA256"
    /\ last.preFin
    /\ last.preUse
    /\ resetFrom = "Finalized"

\* ----------------------------------------------------------------- C13
\* C13: construction for a mechanism the resolver maps to no digest
\* algorithm returns CKR_MECHANISM_INVALID; after any failed construction no
\* operation exists; a successful construction yields an operation for the
\* requested mechanism with finalized and in_use false and a running context
\* on which EVP_DigestInit has not been called.
C13_ConstructionAllOrNothing ==
    /\ (last.op = "new" =>
          /\ (mech_type_to_digest_name(last.val.m) = NULL =>
                last.ret = CKR_MECHANISM_INVALID)
          /\ (last.ret # CKR_OK =>
                ~constructed /\ mech = NoMech /\ md = NULL)
          /\ (last.ret = CKR_OK =>
                /\ constructed
                /\ mech = last.val.m
                /\ md = mech_type_to_digest_name(mech)
                /\ md # NULL
                /\ ~finalized
                /\ ~in_use
                /\ ctx = NewCtx
                /\ last.eng = <<>>))
    /\ (~constructed => mech = NoMech /\ ~finalized /\ ~in_use)

C13_Witness ==
    /\ last.op = "new"
    /\ last.val = MechVal("CKM_AES_CBC")
    /\ last.ret = CKR_MECHANISM_INVALID
    /\ ~constructed

\* ----------------------------------------------------------------- C14
\* C14: since construction or the last reset() at most one digest or
\* digest_final call has returned CKR_OK, and a digest_update call returns
\* CKR_OK only when none has.
C14_AtMostOneCompletion ==
    /\ okFinals <= 1
    /\ (okFinals = 1 => finalized)
    /\ (last.op = "digest_update" /\ last.ret = CKR_OK => okFinals = 0)

C14_Witness ==
    /\ okFinals = 1
    /\ last.op = "digest_final"
    /\ last.preUse
    /\ last.buflen = digest_len(md)
    /\ last.ret = CKR_OPERATION_NOT_INITIALIZED
    /\ ctx.st = "final"

\* ----------------------------------------------------------------- C15
\* the engine was reached by the call c and failed or wrote an unexpected
\* number of bytes
EngineWentWrong(c) == c.eng # <<>> /\ ~NoEngineFailure(c)

\* C15: a digest or digest_final call whose engine call fails or reports an
\* unexpected output length returns CKR_GENERAL_ERROR with finalized true,
\* and a digest or digest_final call made next returns
\* CKR_OPERATION_NOT_INITIALIZED without reaching the engine.
C15_FailClosed ==
    /\ [](last.op \in {"digest", "digest_final"} /\ EngineWentWrong(last) =>
            /\ last.ret = CKR_GENERAL_ERROR
            /\ ~last.preFin
            /\ finalized)
    /\ [][last.op \in {"digest", "digest_final"} /\ EngineWentWrong(last)
            /\ last'.op \in {"digest", "digest_final"}
          => /\ last'.ret = CKR_OPERATION_NOT_INITIALIZED
             /\ last'.eng = <<>>
             /\ finalized']_vars

C15_Witness ==
    /\ last.op = "digest_final"
    /\ last.eng = << <<"EVP_DigestFinal_ex", "fail">> >>
    /\ last.ret = CKR_GENERAL_ERROR
    /\ finalized
    /\ okFinals = 0

\* ----------------------------------------------------------------- C16
\* C16: whenever in_use is true, EVP_DigestInit has been run on the running
\* context and at least one engine update has succeeded since construction
\* or the last reset().
C16_InUseImpliesAccepted ==
    in_use => ctx.st # "new" /\ accepted

\* ----------------------------------------------------------------- C17
\* the lifecycle check of digest_final lets a call through in the current
\* state, whatever the buffer length and the engine's outcome
FinalAccepted ==
    \A n \in BufLens(md), e \in EngineOutResults :
        digest_final(finalized, in_use, ctx, md, n, e).ret
            # CKR_OPERATION_NOT_INITIALIZED

\* C17 as stated: some combination of (finalized, in_use) is never taken by
\* a constructed operation.
C17_ThreeFlagStates_Original ==
    \E f \in BOOLEAN, u \in BOOLEAN :
        [](constructed => ~(finalized = f /\ in_use = u))

\* C17 amended: all four combinations of (finalized, in_use) are taken; the
\* two with finalized true (in_use false after a one-shot digest, in_use true
\* after streaming) both behave as Finalized, so the calls a state accepts
\* are those of Idle, Streaming or Finalized as named by the flag pair.
C17_ThreeFlagStates ==
    constructed =>
        CASE Lifecycle(finalized, in_use) = "Idle" ->
                DigestAccepted /\ UpdateAccepted /\ ~FinalAccepted
          [] Lifecycle(finalized, in_use) = "Streaming" ->
                ~DigestAccepted /\ UpdateAccepted /\ FinalAccepted
          [] Lifecycle(finalized, in_use) = "Finalized" ->
                ~DigestAccepted /\ ~UpdateAccepted /\ ~FinalAccepted

\* finalized with in_use false, on an operation whose context was finalized
\* by an earlier streaming sequence (finalized with in_use true)
C17_Witness ==
    /\ finalized
    /\ ~in_use
    /\ ctx.st = "final"
    /\ okFinals = 1
    /\ resetFrom = "Finalized"

\* ----------------------------------------------------------------- C18
\* the engine primitive prim was invoked during the call c
Invoked(c, prim) == \E i \in 1..Len(c.eng) : c.eng[i][1] = prim

\* C18: EVP_DigestInit is invoked only by a digest_update call made with
\* finalized and in_use both false, and exactly by those; a digest call
\* invokes no primitive of the running context and leaves the context and
\* in_use as they were.
C18_LazyInitOneShotFrame ==
    /\ [](/\ (Invoked(last, "EVP_DigestInit") <=>
                last.op = "digest_update" /\ ~last.preFin /\ ~last.preUse)
          /\ (last.op = "digest" =>
                /\ ~Invoked(last, "EVP_DigestInit")
                /\ ~Invoked(last, "EVP_DigestUpdate")
                /\ ~Invoked(last, "EVP_DigestFinal_ex")
                /\ in_use = last.preUse))
    /\ [][last'.op = "digest" => ctx' = ctx /\ in_use' = in_use]_vars

C18_Witness ==
    /\ last.op = "digest_update"
    /\ last.preUse
    /\ last.ret = CKR_OK
    /\ last.eng = << <<"EVP_DigestUpdate", "ok">> >>
    /\ Len(fed) = MaxData

\* ----------------------------------------------------------------- C19
\* the call c (digest or digest_final) was made in a state that forbids it
ForbiddenState(c) ==
    \/ c.op = "digest" /\ (c.preUse \/ c.preFin)
    \/ c.op = "digest_final" /\ (~c.preUse \/ c.preFin)

\* C19: a digest or digest_final call made in a forbidden state returns
\* CKR_OPERATION_NOT_INITIALIZED whatever the length of its buffer, and a
\* call with a wrong-length buffer returns CKR_GENERAL_ERROR only from a
\* state in which the call is allowed.
C19_LifecycleBeforeLength ==
    last.op \in {"digest", "digest_final"} =>
        /\ (ForbiddenState(last) =>
              last.ret = CKR_OPERATION_NOT_INITIALIZED /\ last.eng = <<>>)
        /\ (last.buflen # digest_len(md) /\ last.ret = CKR_GENERAL_ERROR =>
              ~ForbiddenState(last) /\ last.eng = <<>>)
        /\ (last.ret = CKR_OPERATION_NOT_INITIALIZED => ForbiddenState(last))

C19_Witness ==
    /\ last.op = "digest"
    /\ last.preUse
    /\ ~last.preFin
    /\ last.buflen = digest_len(md) - 1
    /\ last.ret = CKR_OPERATION_NOT_INITIALIZED

\* ----------------------------------------------------------------- C20
\* C20: finalized and in_use go from true to false only in a reset() call,
\* in_use goes from false to true only in a digest_update call, and no
\* digest, digest_update or digest_final call clears either flag.
C20_MonotoneFlags ==
    [][/\ (finalized /\ ~finalized' => last'.op = "reset")
       /\ (in_use /\ ~in_use' => last'.op = "reset")
       /\ (~in_use /\ in_use' => last'.op = "digest_update")
       /\ (last'.op \in DigestOps =>
             /\ (finalized => finalized')
             /\ (in_use => in_use')
             /\ (last'.preFin => finalized')
             /\ (last'.preUse => in_use'))]_vars

C20_Witness ==
    /\ last.op = "reset"
    /\ last.preFin
    /\ last.preUse
    /\ ~finalized
    /\ ~in_use
    /\ resetFrom = "Finalized"
    /\ ctx.st = "final"

====
